---- MODULE Spec2Model ----
(***************************************************************************)
(* dotenv-linter: the command invocation layer (src/main.rs).              *)
(*                                                                         *)
(* One run of `main` is modelled as a sequential state machine: reading    *)
(* the working directory, parsing the argument vector against the schema   *)
(* declared in get_args, applying the colour override, matching on the     *)
(* subcommand and translating the collaborator's outcome to an exit code.  *)
(*                                                                         *)
(* The argument vector is drawn from sequences over ArgTokens.  Help and   *)
(* version requests and words resembling a subcommand name (which the      *)
(* parsing library answers with a suggestion) are not in the alphabet.     *)
(***************************************************************************)
EXTENDS Integers, Sequences, FiniteSets

\* ---------------------------------------------------------------- bounds
MaxArgs == 5
MaxWarnings == 2
MaxNames == 2

\* ------------------------------------------------------- input alphabets
ArgTokens == {"bogus", "fix", "list", "l", "compare", "--no-color", "-e"}

CheckNames == {"DuplicatedKey", "EndingBlankLine"}

Warnings == {"w"}

SeqsUpTo(S, n) == UNION {[1..k -> S] : k \in 0..n}

ArgVectors == SeqsUpTo(ArgTokens, MaxArgs)

\* ------------------------------------------------------ argument schema
\* Every long/short form declared anywhere in the schema, with the
\* identity of the argument it belongs to.
ArgForms ==
    [f \in {"--no-color", "-q", "--quiet", "-r", "--recursive",
            "-e", "--exclude", "-s", "--skip", "--no-backup"} |->
        CASE f = "--no-color" -> "no-color"
          [] f \in {"-q", "--quiet"} -> "quiet"
          [] f \in {"-r", "--recursive"} -> "recursive"
          [] f \in {"-e", "--exclude"} -> "exclude"
          [] f \in {"-s", "--skip"} -> "skip"
          [] OTHER -> "no-backup"]

\* A token that starts with a hyphen starts a new argument.
IsDash(t) == t \in DOMAIN ArgForms

no_color_flag == "no-color"

quiet_flag == "quiet"

\* common_args: positional input (default: current dir, multiple), the
\* value options exclude and skip (multiple), the flags recursive,
\* no-color and quiet.
common_args_noinput ==
    [flags |-> {"recursive", no_color_flag, quiet_flag},
     opts |-> {"exclude", "skip"},
     positional |-> FALSE, required |-> FALSE, has_default |-> FALSE,
     min_values |-> 0]

common_args ==
    [flags |-> {"recursive", no_color_flag, quiet_flag},
     opts |-> {"exclude", "skip"},
     positional |-> TRUE, required |-> TRUE, has_default |-> TRUE,
     min_values |-> 0]

fix_args_schema ==
    [common_args EXCEPT !.flags = @ \cup {"no-backup"}]

compare_args_onefile ==
    [flags |-> {no_color_flag, quiet_flag},
     opts |-> {},
     positional |-> TRUE, required |-> FALSE, has_default |-> FALSE,
     min_values |-> 1]

compare_args_schema ==
    [flags |-> {no_color_flag, quiet_flag},
     opts |-> {},
     positional |-> TRUE, required |-> TRUE, has_default |-> FALSE,
     min_values |-> 2]

list_args_schema ==
    [flags |-> {}, opts |-> {},
     positional |-> FALSE, required |-> FALSE, has_default |-> FALSE,
     min_values |-> 0]

\* Subcommand names and visible aliases, mapped to the canonical name.
SubcommandNames ==
    [w \in {"list", "l", "fix", "f", "compare", "c"} |->
        CASE w \in {"list", "l"} -> "list"
          [] w \in {"fix", "f"} -> "fix"
          [] OTHER -> "compare"]

SchemaOf(cmd) ==
    CASE cmd = "" -> common_args
      [] cmd = "fix" -> fix_args_schema
      [] cmd = "compare" -> compare_args_schema
      [] OTHER -> list_args_schema

\* Only the root command declares subcommands.
HasSubcommands(cmd) == cmd = ""

\* ------------------------------------------------------------- parser
ValueArgs == {"input", "exclude", "skip"}

NoMatches == [status |-> "none"]

UsageError == [status |-> "usage_error"]

EmptyAcc ==
    [present |-> {}, dup |-> FALSE, vals |-> [a \in ValueArgs |-> << >>]]

\* End of one command's arguments: defaults, then validation.
Validate(cmd, acc, current_dir, subname, submatches) ==
    LET s == SchemaOf(cmd)
        input == IF acc.vals["input"] = << >> /\ s.has_default
                 THEN <<current_dir>> ELSE acc.vals["input"]
    IN  IF acc.dup THEN UsageError
        ELSE IF \E o \in acc.present \cap s.opts : acc.vals[o] = << >>
             THEN UsageError
        ELSE IF s.positional /\ s.required /\ input = << >> THEN UsageError
        ELSE IF s.positional /\ input # << >> /\ Len(input) < s.min_values
             THEN UsageError
        ELSE [status |-> "ok",
              present |-> acc.present,
              vals |-> [acc.vals EXCEPT !["input"] = input],
              subcommand |-> subname,
              sub |-> submatches]

RECURSIVE ParseCmd(_, _, _, _, _)
\* cmd: the command whose schema is active; toks: the arguments left;
\* acc: what was matched so far; needs_val_of: the option still taking
\* values ("" when none).
ParseCmd(cmd, toks, acc, needs_val_of, current_dir) ==
    LET s == SchemaOf(cmd) IN
    IF toks = << >> THEN Validate(cmd, acc, current_dir, "", NoMatches)
    ELSE
      LET t == Head(toks)
          rest == Tail(toks)
      IN
      IF IsDash(t) THEN
          LET id == ArgForms[t] IN
          IF id \in s.flags THEN
              ParseCmd(cmd, rest,
                       [acc EXCEPT !.present = @ \cup {id},
                                   !.dup = @ \/ id \in acc.present],
                       "", current_dir)
          ELSE IF id \in s.opts THEN
              ParseCmd(cmd, rest, [acc EXCEPT !.present = @ \cup {id}],
                       id, current_dir)
          ELSE UsageError
      ELSE IF needs_val_of # "" THEN
          ParseCmd(cmd, rest,
                   [acc EXCEPT !.vals[needs_val_of] = Append(@, t)],
                   needs_val_of, current_dir)
      ELSE IF HasSubcommands(cmd) /\ t \in DOMAIN SubcommandNames THEN
          LET name == SubcommandNames[t]
              sub == ParseCmd(name, rest, EmptyAcc, "", current_dir)
          IN  IF sub.status # "ok" THEN UsageError
              ELSE Validate(cmd, acc, current_dir, name, sub)
      ELSE IF s.positional THEN
          ParseCmd(cmd, rest, [acc EXCEPT !.vals["input"] = Append(@, t)],
                   "", current_dir)
      ELSE UsageError

get_args(args_os, current_dir) ==
    ParseCmd("", args_os, EmptyAcc, "", current_dir)

is_present(matches, name) == name \in matches.present


\* ------------------------------------------------------ program state
VARIABLES
    argv,            \* the process arguments after the program name
    pc,              \* position of main
    current_dir,     \* result of env::current_dir()
    cwd_reads,       \* number of working-directory queries made
    args,            \* the parsed matches (NoMatches before parsing)
    color,           \* the colored crate's manual override
    override_writes, \* number of set_override calls made
    arm,             \* the match arm taken ("" before the match)
    arm_entries,     \* number of match arms entered
    calls,           \* collaborators invoked, in order
    outcome,         \* what the last collaborator returned
    stdout,          \* what main's println! left on standard output
    stderr,          \* what main, the parser and the runtime left on
                     \* standard error
    exit_code        \* -1 while running, else the process exit code

vars == <<argv, pc, current_dir, cwd_reads, args, color, override_writes,
          arm, arm_entries, calls, outcome, stdout, stderr, exit_code>>

NoOutcome == [kind |-> "none"]

\* How a call of a collaborator ends for main: Ok(value), Err(e), or the
\* call does not return because the collaborator panicked (as any call
\* may, for instance in a println! of its own).
CheckResults ==
    {[kind |-> "err"], [kind |-> "panic"]}
    \cup {[kind |-> "ok", n |-> n] : n \in 0..MaxWarnings}

FixResults == {[kind |-> "err"], [kind |-> "panic"], [kind |-> "ok"]}

CompareResults ==
    {[kind |-> "err"], [kind |-> "panic"]}
    \cup {[kind |-> "ok", warnings |-> w] : w \in SeqsUpTo(Warnings, MaxWarnings)}

CheckNameLists == SeqsUpTo(CheckNames, MaxNames)

Init ==
    /\ argv \in ArgVectors
    /\ pc = "current_dir"
    /\ current_dir = "unset"
    /\ cwd_reads = 0
    /\ args = NoMatches
    /\ color = "default"
    /\ override_writes = 0
    /\ arm = ""
    /\ arm_entries = 0
    /\ calls = << >>
    /\ outcome = NoOutcome
    /\ stdout = << >>
    /\ stderr = << >>
    /\ exit_code = -1

\* process::exit(code)
Exit(code) ==
    /\ pc' = "exited"
    /\ exit_code' = code

\* What one write of the line m leaves on a stream: the whole line, or,
\* when the stream cannot take it, a cut-off piece of it (some but not
\* all of its bytes) or nothing.
Whole(m) == [text |-> m, whole |-> TRUE]

Cut(m) == [text |-> m, whole |-> FALSE]

FailedWrites(m) == {<< >>, <<Cut(m)>>}

WriteAttempts(m) == {<<Whole(m)>>} \cup FailedWrites(m)

\* A write to standard error whose failure is ignored.
TryWriteStderr(m) ==
    \E w \in WriteAttempts(m) : stderr' = stderr \o w

\* A panic while standard error was not the stream that failed: the panic
\* hook tries to write its message to standard error and the process ends
\* with exit code 101.
Panic ==
    /\ TryWriteStderr("panic")
    /\ Exit(101)

\* main returns Err(e): the runtime tries to print the error (a failed
\* write is ignored) and exits with 1.
ReturnErr ==
    /\ TryWriteStderr("Error")
    /\ Exit(1)

\* line 10: let current_dir = env::current_dir()?;
GetCurrentDir ==
    /\ pc = "current_dir"
    /\ cwd_reads' = cwd_reads + 1
    /\ \E ok \in BOOLEAN :
         IF ok
         THEN /\ current_dir' = "cwd"
              /\ pc' = "get_args"
              /\ UNCHANGED <<stderr, exit_code>>
         ELSE /\ ReturnErr
              /\ UNCHANGED current_dir
    /\ UNCHANGED <<argv, args, color, override_writes, arm, arm_entries,
                   calls, outcome, stdout>>

\* line 11: let args = get_args(current_dir.as_os_str());
\* a parse failure tries to print the usage error (a failed write is
\* ignored) and exits with 1.
GetArgs ==
    /\ pc = "get_args"
    /\ LET m == get_args(argv, current_dir) IN
         /\ args' = m
         /\ IF m.status = "ok"
            THEN /\ pc' = "policy"
                 /\ UNCHANGED <<stderr, exit_code>>
            ELSE /\ TryWriteStderr("usage")
                 /\ Exit(1)
    /\ UNCHANGED <<argv, current_dir, cwd_reads, color, override_writes,
                   arm, arm_entries, calls, outcome, stdout>>

\* disable_color_output: the override after the call, as
\* [color, writes] from the override before it.
disable_color_output_noop(matches, c, w) ==
    [color |-> c, writes |-> w]

disable_color_output_reset(matches, c, w) ==
    IF is_present(matches, "no-color")
    THEN [color |-> "disabled", writes |-> w + 1]
    ELSE [color |-> "default", writes |-> w + 1]

disable_color_output(matches, c, w) ==
    IF is_present(matches, "no-color")
    THEN [color |-> "disabled", writes |-> w + 1]
    ELSE [color |-> c, writes |-> w]

\* line 13: disable_color_output(&args);
DisableColorRoot ==
    /\ pc = "policy"
    /\ LET p == disable_color_output(args, color, override_writes) IN
         /\ color' = p.color
         /\ override_writes' = p.writes
    /\ pc' = "match"
    /\ UNCHANGED <<argv, current_dir, cwd_reads, args, arm, arm_entries,
                   calls, outcome, stdout, stderr, exit_code>>

\* The arm of `match args.subcommand()` a (name, matches) pair selects.
MatchArm_fixAsCheck(name, has_matches) ==
    CASE name = "" /\ ~has_matches -> "NoSubcommand"
      [] name = "fix" /\ has_matches -> "NoSubcommand"
      [] name = "list" /\ has_matches -> "List"
      [] name = "compare" /\ has_matches -> "Compare"
      [] OTHER -> "Unknown"

MatchArm(name, has_matches) ==
    CASE name = "" /\ ~has_matches -> "NoSubcommand"
      [] name = "fix" /\ has_matches -> "Fix"
      [] name = "list" /\ has_matches -> "List"
      [] name = "compare" /\ has_matches -> "Compare"
      [] OTHER -> "Unknown"

\* lines 15-45: the match; the catch-all arm prints and falls through.
\* When eprintln! cannot write, it panics: standard error keeps what the
\* failed write left, the panic hook then tries to write its message to
\* the same stream, and the process ends with exit code 101.
MatchSubcommand ==
    /\ pc = "match"
    /\ LET a == MatchArm(args.subcommand, args.sub.status = "ok") IN
         /\ arm' = a
         /\ arm_entries' = arm_entries + 1
         /\ IF a = "Unknown"
            THEN \E written \in BOOLEAN :
                   IF written
                   THEN /\ stderr' = Append(stderr, Whole("unknown command"))
                        /\ pc' = "fallthrough"
                        /\ UNCHANGED exit_code
                   ELSE /\ \E w \in FailedWrites("unknown command") :
                           \E m \in WriteAttempts("panic") :
                             stderr' = stderr \o w \o m
                        /\ Exit(101)
            ELSE /\ pc' = a
                 /\ UNCHANGED <<stderr, exit_code>>
    /\ UNCHANGED <<argv, current_dir, cwd_reads, args, color,
                   override_writes, calls, outcome, stdout>>

\* line 17: dotenv_linter::check(&args, &current_dir) is entered.
CallCheck ==
    /\ pc = "NoSubcommand"
    /\ calls' = Append(calls, "check")
    /\ pc' = "in_check"
    /\ UNCHANGED <<argv, current_dir, cwd_reads, args, color,
                   override_writes, arm, arm_entries, outcome, stdout,
                   stderr, exit_code>>

check_succeeds_le1(total_warnings) == total_warnings <= 1

\* line 19: if total_warnings == 0
check_succeeds(total_warnings) == total_warnings = 0

\* lines 17-21: the call of check ends; `?` propagates a failure.
ReturnCheck ==
    /\ pc = "in_check"
    /\ \E r \in CheckResults :
         /\ outcome' = r
         /\ IF r.kind = "err" THEN ReturnErr
            ELSE IF r.kind = "panic" THEN Panic
            ELSE IF check_succeeds(r.n)
                 THEN Exit(0) /\ UNCHANGED stderr
                 ELSE /\ pc' = "fallthrough"
                      /\ UNCHANGED <<stderr, exit_code>>
    /\ UNCHANGED <<argv, current_dir, cwd_reads, args, color,
                   override_writes, arm, arm_entries, calls, stdout>>

\* line 24: dotenv_linter::fix(&fix_args, &current_dir) is entered.
CallFix ==
    /\ pc = "Fix"
    /\ calls' = Append(calls, "fix")
    /\ pc' = "in_fix"
    /\ UNCHANGED <<argv, current_dir, cwd_reads, args, color,
                   override_writes, arm, arm_entries, outcome, stdout,
                   stderr, exit_code>>

ReturnFix_ignoreErr ==
    /\ pc = "in_fix"
    /\ \E r \in FixResults :
         /\ outcome' = r
         /\ Exit(0) /\ UNCHANGED stderr
    /\ UNCHANGED <<argv, current_dir, cwd_reads, args, color,
                   override_writes, arm, arm_entries, calls, stdout>>

\* lines 24-25: the call of fix ends; `?` propagates a failure, else
\* exit(0).
ReturnFix ==
    /\ pc = "in_fix"
    /\ \E r \in FixResults :
         /\ outcome' = r
         /\ IF r.kind = "err" THEN ReturnErr
            ELSE IF r.kind = "panic" THEN Panic
            ELSE Exit(0) /\ UNCHANGED stderr
    /\ UNCHANGED <<argv, current_dir, cwd_reads, args, color,
                   override_writes, arm, arm_entries, calls, stdout>>

\* The lines of names, each written whole.
WholeLines(names) == [i \in 1..Len(names) |-> Whole(names[i])]

print_names_tail(names) ==
    IF names = << >> THEN << >> ELSE Tail(WholeLines(names))

\* lines 28-30: .iter().for_each(|name| println!("{}", name))
print_names(names) == WholeLines(names)

\* lines 28-32: the list arm.  Each println! either writes its line or,
\* when standard output cannot take it, panics, which ends the loop;
\* `written` is the number of lines that got out before the first failed
\* write.  The line whose write failed stays in the stream's buffer and
\* is flushed once more when the runtime exits, so in the end it is
\* missing, cut off or written whole.
ListNames ==
    /\ pc = "List"
    /\ \E names \in CheckNameLists :
         LET lines == print_names(names) IN
         \E written \in 0..Len(lines) :
           /\ outcome' = [kind |-> "ok", names |-> names]
           /\ IF written = Len(lines)
              THEN /\ stdout' = stdout \o lines
                   /\ Exit(0)
                   /\ UNCHANGED stderr
              ELSE /\ \E w \in WriteAttempts(lines[written + 1].text) :
                        stdout' = stdout \o SubSeq(lines, 1, written) \o w
                   /\ Panic
    /\ calls' = Append(calls, "available_check_names")
    /\ UNCHANGED <<argv, current_dir, cwd_reads, args, color,
                   override_writes, arm, arm_entries>>

\* line 35: disable_color_output(&compare_args);
DisableColorCompare ==
    /\ pc = "Compare"
    /\ LET p == disable_color_output(args.sub, color, override_writes) IN
         /\ color' = p.color
         /\ override_writes' = p.writes
    /\ pc' = "compare_call"
    /\ UNCHANGED <<argv, current_dir, cwd_reads, args, arm, arm_entries,
                   calls, outcome, stdout, stderr, exit_code>>

\* line 37: dotenv_linter::compare(&compare_args, &current_dir) is entered.
CallCompare ==
    /\ pc = "compare_call"
    /\ calls' = Append(calls, "compare")
    /\ pc' = "in_compare"
    /\ UNCHANGED <<argv, current_dir, cwd_reads, args, color,
                   override_writes, arm, arm_entries, outcome, stdout,
                   stderr, exit_code>>

compare_succeeds_le1(warnings) == Len(warnings) <= 1

\* line 38: if warnings.is_empty()
compare_succeeds(warnings) == warnings = << >>

\* lines 37-40: the call of compare ends; `?` propagates a failure.
ReturnCompare ==
    /\ pc = "in_compare"
    /\ \E r \in CompareResults :
         /\ outcome' = r
         /\ IF r.kind = "err" THEN ReturnErr
            ELSE IF r.kind = "panic" THEN Panic
            ELSE IF compare_succeeds(r.warnings)
                 THEN Exit(0) /\ UNCHANGED stderr
                 ELSE /\ pc' = "fallthrough"
                      /\ UNCHANGED <<stderr, exit_code>>
    /\ UNCHANGED <<argv, current_dir, cwd_reads, args, color,
                   override_writes, arm, arm_entries, calls, stdout>>

\* line 47: process::exit(1);
ExitFailure ==
    /\ pc = "fallthrough"
    /\ Exit(1)
    /\ UNCHANGED <<argv, current_dir, cwd_reads, args, color,
                   override_writes, arm, arm_entries, calls, outcome,
                   stdout, stderr>>

Next ==
    \/ GetCurrentDir
    \/ GetArgs
    \/ DisableColorRoot
    \/ MatchSubcommand
    \/ CallCheck
    \/ ReturnCheck
    \/ CallFix
    \/ ReturnFix
    \/ ListNames
    \/ DisableColorCompare
    \/ CallCompare
    \/ ReturnCompare
    \/ ExitFailure

Spec == Init /\ [][Next]_vars

TypeOK ==
    /\ argv \in ArgVectors
    /\ pc \in {"current_dir", "get_args", "policy", "match", "NoSubcommand",
               "in_check", "Fix", "in_fix", "List", "Compare", "compare_call",
               "in_compare", "fallthrough", "exited"}
    /\ color \in {"default", "disabled"}
    /\ exit_code \in {-1, 0, 1, 101}
    /\ arm \in {"", "NoSubcommand", "Fix", "List", "Compare", "Unknown"}


\* ------------------------------------------------------------ properties
Range(s) == {s[i] : i \in 1..Len(s)}

Collaborators == {"check", "fix", "compare"}

\* C1: on the default path, when check returns a warning count n without
\* failing, the exit code is 0 if n = 0 and 1 if n > 0, and nothing else.
C1_CheckExitCode ==
    (pc = "exited" /\ arm = "NoSubcommand" /\ outcome.kind = "ok")
        => /\ calls = <<"check">>
           /\ exit_code = (IF outcome.n = 0 THEN 0 ELSE 1)

C1_Witness ==
    /\ pc = "exited" /\ arm = "NoSubcommand"
    /\ outcome.kind = "ok" /\ outcome.n > 0 /\ exit_code = 1

\* C2: on the compare path, when compare returns a warning sequence
\* without failing, the exit code is 0 if it is empty and 1 otherwise.
C2_CompareExitCode ==
    (pc = "exited" /\ arm = "Compare" /\ outcome.kind = "ok")
        => /\ calls = <<"compare">>
           /\ exit_code = (IF Len(outcome.warnings) = 0 THEN 0 ELSE 1)

C2_Witness ==
    /\ pc = "exited" /\ arm = "Compare"
    /\ outcome.kind = "ok" /\ Len(outcome.warnings) > 0 /\ exit_code = 1

\* The first argument is a word that is no subcommand name or alias.
FirstIsPlainWord ==
    /\ Len(argv) >= 1
    /\ ~IsDash(argv[1])
    /\ argv[1] \notin DOMAIN SubcommandNames

\* C3 (as claimed): an invocation whose first argument is a word that is
\* not a subcommand name or alias takes the Unknown path: no collaborator
\* is invoked, "unknown command" is written to the error stream and the
\* exit code is 1.
C3_Original ==
    (FirstIsPlainWord /\ args.status = "ok")
        => /\ calls = << >>
           /\ arm \in {"", "Unknown"}
           /\ pc = "exited"
                 => /\ arm = "Unknown"
                    /\ Whole("unknown command") \in Range(stderr)
                    /\ exit_code = 1

\* C3 (amended): such a word is matched by the root command's positional
\* input; the run never takes the Unknown path and never writes "unknown
\* command"; when the word is the only argument the default path is
\* taken (provided the working-directory query succeeded), check is the
\* one collaborator invoked and the exit code is 0 exactly when check
\* returns a zero count, and 1 exactly when it returns a positive count
\* or an error.
C3_WordIsInput ==
    FirstIsPlainWord =>
        /\ arm # "Unknown"
        /\ \A e \in Range(stderr) : e.text # "unknown command"
        /\ args.status = "ok" => Head(args.vals["input"]) = argv[1]
        /\ (Len(argv) = 1 /\ pc = "exited" /\ current_dir = "cwd")
              => /\ arm = "NoSubcommand"
                 /\ calls = <<"check">>
                 /\ (exit_code = 0)
                       <=> (outcome.kind = "ok" /\ outcome.n = 0)
                 /\ (exit_code = 1)
                       <=> \/ outcome.kind = "err"
                           \/ outcome.kind = "ok" /\ outcome.n > 0

C3_Witness ==
    /\ argv = <<"bogus">> /\ pc = "exited"
    /\ arm = "NoSubcommand" /\ calls = <<"check">>
    /\ args.vals["input"] = <<"bogus">>

\* The no-color flag parsed for the path that is active.
OwnNoColor ==
    IF arm = "NoSubcommand" THEN is_present(args, "no-color")
    ELSE is_present(args.sub, "no-color")

\* C4 (as claimed): while a collaborator is being invoked, colour is forced
\* off if and only if the active path's own no-color flag is present (the
\* root's for check, the fix subcommand's for fix, the compare
\* subcommand's for compare).
C4_OwnFlagOnly ==
    pc \in {"in_check", "in_fix", "in_compare"}
        => (color = "disabled" <=> OwnNoColor)

\* no-color was given at the root or on the compare subcommand.
NoColorRootOrCompare ==
    /\ args.status = "ok"
    /\ \/ is_present(args, "no-color")
       \/ args.subcommand = "compare" /\ is_present(args.sub, "no-color")

\* C5: when no-color is present at the root or on the compare subcommand,
\* the override is disabled from the moment check, fix or compare is
\* invoked and in every later state of the run.
C5_DisabledBeforeCall ==
    (NoColorRootOrCompare /\ Range(calls) \cap Collaborators # {})
        => color = "disabled"

C5_Witness ==
    /\ pc = "in_compare"
    /\ ~is_present(args, "no-color")
    /\ is_present(args.sub, "no-color")
    /\ color = "disabled"

\* C6: in every step the override's value changes only from default to
\* disabled (so it changes at most once and is never re-enabled), and no
\* set_override call is made when the arguments hold no no-color flag.
C6_OverrideMonotone ==
    [][/\ color' # color => (color = "default" /\ color' = "disabled")
       /\ "--no-color" \notin Range(argv) => override_writes' = 0]_vars

C6_Witness ==
    /\ override_writes = 2
    /\ color = "disabled"
    /\ is_present(args, "no-color")
    /\ is_present(args.sub, "no-color")

\* C7 (as claimed): a run that selects list exits with 0 and has written
\* exactly the names returned, in order, without any working-directory
\* access and without invoking check, fix or compare.
C7_Original ==
    (pc = "exited" /\ arm = "List")
        => /\ exit_code = 0
           /\ stdout = WholeLines(outcome.names)
           /\ calls = <<"available_check_names">>
           /\ cwd_reads = 0

\* out is what a run of println! over names leaves when the write of one
\* line fails: the lines before it whole, then that line missing, cut
\* off or whole, and nothing of the lines after it.
IsStoppedAtFailure(out, names) ==
    \E k \in 0..(Len(names) - 1) :
        /\ Len(out) \in {k, k + 1}
        /\ SubSeq(out, 1, k) = WholeLines(SubSeq(names, 1, k))
        /\ Len(out) = k + 1
              => out[k + 1] \in {Cut(names[k + 1]), Whole(names[k + 1])}

\* C7 (amended): a run whose match selects list (`list` or `l`) invokes
\* available_check_names and none of check, fix and compare, after the
\* working directory has been queried once, before parsing.  It ends in
\* one of two ways: every println! succeeded, standard output holds
\* exactly the names returned, one per line and in order, nothing went to
\* standard error and the exit code is 0; or the write of one line
\* failed, standard output holds the names before that line, then that
\* line missing, cut off or whole, and none of the names after it,
\* standard error holds at most the panic message or a piece of it, and
\* the exit code is 101.  `list` or `l` alone selects list whenever the
\* working-directory query succeeds.
C7_ListOutput ==
    /\ (pc = "exited" /\ arm = "List")
          => /\ calls = <<"available_check_names">>
             /\ cwd_reads = 1
             /\ \/ /\ exit_code = 0
                   /\ stdout = WholeLines(outcome.names)
                   /\ stderr = << >>
                \/ /\ exit_code = 101
                   /\ IsStoppedAtFailure(stdout, outcome.names)
                   /\ stderr \in WriteAttempts("panic")
    /\ arm = "List" => pc \in {"List", "exited"}
    /\ (pc = "exited" /\ current_dir = "cwd"
          /\ argv \in {<<"list">>, <<"l">>}) => arm = "List"

C7_Witness ==
    /\ argv = <<"l">> /\ pc = "exited" /\ arm = "List"
    /\ Len(stdout) = 2 /\ stdout[1] # stdout[2] /\ exit_code = 0

\* C8: when check, fix or compare fails (returns an error, or panics) the
\* run has ended at once: no exit-code mapping, no further collaborator,
\* and a non-zero exit code (1 for an error, 101 for a panic); standard
\* error holds at most the failure's message or a piece of it.
C8_FailureAborts ==
    outcome.kind \in {"err", "panic"}
        => /\ pc = "exited"
           /\ exit_code = (IF outcome.kind = "err" THEN 1 ELSE 101)
           /\ Len(calls) = 1
           /\ calls[1] \in Collaborators
           /\ stderr \in WriteAttempts(IF outcome.kind = "err"
                                       THEN "Error" ELSE "panic")

C8_Witness ==
    /\ outcome.kind = "err" /\ calls = <<"fix">> /\ pc = "exited"

\* compare is the subcommand and fewer than two file paths follow it.
CompareTooFewInputs ==
    \E i \in 1..Len(argv) :
        /\ argv[i] \in {"compare", "c"}
        /\ \A j \in 1..(i - 1) : argv[j] \in {"--no-color", "bogus"}
        /\ Cardinality({j \in (i + 1)..Len(argv) : ~IsDash(argv[j])}) < 2

\* A value option is given and none of its uses is followed by a value.
OptionWithoutValue ==
    /\ "-e" \in Range(argv)
    /\ \A i \in 1..Len(argv) :
          argv[i] = "-e" => (i = Len(argv) \/ IsDash(argv[i + 1]))

\* C9: an argument vector that misses a required value (compare with
\* fewer than two file paths, a value option without a value) is a usage
\* error of the parser: the run ends with a non-zero exit code, the
\* override is never applied and no collaborator is invoked.
C9_UsageError ==
    (CompareTooFewInputs \/ OptionWithoutValue)
        => /\ args.status \in {"none", "usage_error"}
           /\ args.status = "usage_error"
                 => (pc = "exited" /\ stderr \in WriteAttempts("usage"))
           /\ pc \in {"current_dir", "get_args", "exited"}
           /\ pc = "exited" => exit_code = 1
           /\ override_writes = 0 /\ color = "default"
           /\ arm = "" /\ calls = << >>

C9_Witness ==
    /\ argv = <<"compare", "bogus">>
    /\ args.status = "usage_error"
    /\ pc = "exited" /\ exit_code = 1

\* The router branch the parsed subcommand stands for.
BranchOf(name) ==
    CASE name = "" -> "NoSubcommand"
      [] name = "fix" -> "Fix"
      [] name = "list" -> "List"
      [] name = "compare" -> "Compare"
      [] OTHER -> "Unknown"

\* The one collaborator a branch may call, and the positions of main
\* that belong to the branch.
CallOf(b) ==
    CASE b = "NoSubcommand" -> <<"check">>
      [] b = "Fix" -> <<"fix">>
      [] b = "List" -> <<"available_check_names">>
      [] b = "Compare" -> <<"compare">>
      [] OTHER -> << >>

PositionsOf(b) ==
    CASE b = "NoSubcommand" -> {"NoSubcommand", "in_check", "fallthrough"}
      [] b = "Fix" -> {"Fix", "in_fix"}
      [] b = "List" -> {"List"}
      [] b = "Compare" -> {"Compare", "compare_call", "in_compare",
                           "fallthrough"}
      [] OTHER -> {"fallthrough"}

\* C10: in a run that parses successfully exactly one router branch is
\* entered, once, it is the branch of the parsed subcommand, at most one
\* collaborator call is made and it is that branch's, and main is then
\* either inside the branch or has exited.
C10_OneBranch ==
    args.status = "ok" =>
        /\ arm_entries <= 1
        /\ arm_entries = 0 => (arm = "" /\ pc \in {"policy", "match"})
        /\ arm_entries = 1
              => /\ arm = BranchOf(args.subcommand)
                 /\ pc \in PositionsOf(arm) \cup {"exited"}
        /\ calls \in {<< >>, CallOf(arm)}
        /\ pc = "exited" => (arm_entries = 1 /\ exit_code # -1)

C10_Witness ==
    /\ pc = "exited" /\ arm = "Fix" /\ arm_entries = 1
    /\ calls = <<"fix">> /\ exit_code = 0

====
